---- MODULE Spec2Model ----
(***************************************************************************)
(* coco-ssd/src/index.ts: the detection post-processing of                 *)
(* ObjectDetection.detect / infer, for the two output layouts              *)
(*   dense  : result[0] = scores [1,N,C], result[1] = boxes [1,M,1,4]      *)
(*   packed : result[1] = rows   [1,N,C+5]  (base === 'yolov5s')           *)
(*                                                                         *)
(* Numbers.  A JS array is a function on 0..n-1, so that the index         *)
(* arithmetic of the source is kept as written.                            *)
(*  - scores and confidences are integers; the values a Float32Array can   *)
(*    hold are the even ones, and MIN_VALUE = 1 is Number.MIN_VALUE, the   *)
(*    smallest positive double: above 0, below every positive float32.     *)
(*  - pixel quantities (cx, cy, w, h, scale, image width/height) are       *)
(*    integers.                                                            *)
(*  - a normalised box coordinate is fixed point: the integer n is the     *)
(*    float32 value n / F32Den.  Double arithmetic is exact (a rational    *)
(*    <<num, den>>); the store into a Float32Array rounds to the nearest   *)
(*    representable value, ties to even.                                   *)
(***************************************************************************)
EXTENDS Integers, Sequences, FiniteSets, TLC

VARIABLES backend, backend0, pc, inp, loc, ret

vars == <<backend, backend0, pc, inp, loc, ret>>

----------------------------------------------------------------------------
(* Bounds of the model *)

NumCalls == 2
MaxBoxes == 2
F32Den == 8

(* Number.MIN_VALUE *)
MIN_VALUE == 1

----------------------------------------------------------------------------
(* Arrays *)

Length(a) == Cardinality(DOMAIN a)

Push(a, v) == [k \in 0..Length(a) |-> IF k < Length(a) THEN a[k] ELSE v]

ArrayOf(s) == [k \in 0..(Len(s) - 1) |-> s[k + 1]]

RECURSIVE Concat(_)
Concat(ss) == IF ss = <<>> THEN <<>> ELSE Head(ss) \o Concat(Tail(ss))

(* Every sequence of length n over S *)
Tuples(S, n) == [1..n -> S]

----------------------------------------------------------------------------
(* The class table of ./classes (not among the sources): display names    *)
(* keyed from 1, key 0 being reserved.                                     *)

CLASSES == <<"person", "bicycle">>

(* CLASSES[key].displayName: a key the table does not hold reads undefined, *)
(* and the property access on undefined throws a TypeError.                 *)
DisplayNameSubstituted(key) ==
  IF key \in DOMAIN CLASSES
    THEN [threw |-> FALSE, name |-> CLASSES[key]]
    ELSE [threw |-> FALSE, name |-> "undefined"]

DisplayName(key) ==
  IF key \in DOMAIN CLASSES
    THEN [threw |-> FALSE, name |-> CLASSES[key]]
    ELSE [threw |-> TRUE, name |-> "undefined"]

ClassKeyNoOffset(classIndex) == classIndex

ClassKey(classIndex) == classIndex + 1

----------------------------------------------------------------------------
(* calculateMaxScores *)

RECURSIVE ScanScores(_, _, _, _, _)
ScanScores(scores, i, numClasses, j, acc) ==
  IF j >= numClasses THEN acc
  ELSE IF scores[i * numClasses + j] > acc.max
    THEN ScanScores(scores, i, numClasses, j + 1,
                    [max |-> scores[i * numClasses + j], index |-> j])
    ELSE ScanScores(scores, i, numClasses, j + 1, acc)

calculateMaxScores(scores, numBoxes, numClasses) ==
  LET row(i) == ScanScores(scores, i, numClasses, 0,
                           [max |-> MIN_VALUE, index |-> -1])
  IN  [maxes   |-> [i \in 0..(numBoxes - 1) |-> row(i).max],
       classes |-> [i \in 0..(numBoxes - 1) |-> row(i).index]]

(* calculateMaxScoresYolov5 *)

Yolov5ScoreSlotShort(i, j, numClasses) == i * numClasses + 5 + j

Yolov5ScoreSlot(i, j, numClasses) == i * numClasses + (i + 1) * 5 + j

RECURSIVE ScanScoresYolov5(_, _, _, _, _)
ScanScoresYolov5(scores, i, numClasses, j, acc) ==
  IF j >= numClasses THEN acc
  ELSE IF scores[Yolov5ScoreSlot(i, j, numClasses)] > acc.max
    THEN ScanScoresYolov5(scores, i, numClasses, j + 1,
           [max |-> scores[Yolov5ScoreSlot(i, j, numClasses)], index |-> j])
    ELSE ScanScoresYolov5(scores, i, numClasses, j + 1, acc)

calculateMaxScoresYolov5(scores, numBoxes, numClasses) ==
  [i \in 0..(numBoxes - 1) |->
     ScanScoresYolov5(scores, i, numClasses, 0,
                      [max |-> MIN_VALUE, index |-> -1]).index]

(* getConfidenceYoloV5 *)

ConfidenceSlotClass(i, numClasses) == i * (numClasses + 5) + 5

ConfidenceSlot(i, numClasses) == i * (numClasses + 5) + 4

getConfidenceYoloV5(scores, numBoxes, numClasses) ==
  [i \in 0..(numBoxes - 1) |-> scores[ConfidenceSlot(i, numClasses)]]

----------------------------------------------------------------------------
(* getBoxesYoloV5 *)

(* The store of the double num/den (den > 0) into a Float32Array. *)
ToFloat32(q) ==
  LET n == F32Den * q[1]
      d == q[2]
      lo == n \div d
      r == n % d
  IN  IF 2 * r < d THEN lo
      ELSE IF 2 * r > d THEN lo + 1
      ELSE IF lo % 2 = 0 THEN lo ELSE lo + 1

Float32Array(arr) == [k \in DOMAIN arr |-> ToFloat32(arr[k])]

(* (c - size / 2) / scale_by and (c + size / 2) / scale_by *)
CornerLoFullSize(c, size, scale_by) == <<c - size, scale_by>>

CornerLo(c, size, scale_by) == <<2 * c - size, 2 * scale_by>>

CornerHi(c, size, scale_by) == <<2 * c + size, 2 * scale_by>>

getBoxesYoloV5(scores, numBoxes, numClasses, scale_by) ==
  LET x(i) == scores[i * (numClasses + 5) + 0]
      y(i) == scores[i * (numClasses + 5) + 1]
      width(i) == scores[i * (numClasses + 5) + 2]
      height(i) == scores[i * (numClasses + 5) + 3]
      boxes == [k \in 0..(4 * numBoxes - 1) |->
                 LET i == k \div 4
                 IN  CASE k % 4 = 0 -> CornerLo(y(i), height(i), scale_by)
                       [] k % 4 = 1 -> CornerLo(x(i), width(i), scale_by)
                       [] k % 4 = 2 -> CornerHi(y(i), height(i), scale_by)
                       [] OTHER     -> CornerHi(x(i), width(i), scale_by)]
  IN  Float32Array(boxes)

----------------------------------------------------------------------------
(* tf.image.nonMaxSuppression (tfjs-core, not among the sources): greedy   *)
(* suppression as section 4.4 of the specification describes it.           *)

Area(boxes, a) ==
  (boxes[a * 4 + 2] - boxes[a * 4]) * (boxes[a * 4 + 3] - boxes[a * 4 + 1])

Min2(a, b) == IF a <= b THEN a ELSE b

Max2(a, b) == IF a >= b THEN a ELSE b

Intersection(boxes, a, b) ==
  LET ih == Min2(boxes[a * 4 + 2], boxes[b * 4 + 2])
              - Max2(boxes[a * 4], boxes[b * 4])
      iw == Min2(boxes[a * 4 + 3], boxes[b * 4 + 3])
              - Max2(boxes[a * 4 + 1], boxes[b * 4 + 1])
  IN  Max2(ih, 0) * Max2(iw, 0)

(* IoU(a, b) > thr, thr the rational <<num, den>>; a box of zero or       *)
(* negative area has IoU 0 with anything.                                  *)
IoUExceeds(boxes, a, b, thr) ==
  /\ Area(boxes, a) > 0
  /\ Area(boxes, b) > 0
  /\ Intersection(boxes, a, b) * thr[2]
       > thr[1] * (Area(boxes, a) + Area(boxes, b) - Intersection(boxes, a, b))

(* The highest score; equal scores by original index. *)
Best(scores, cands) ==
  CHOOSE c \in cands :
    \A d \in cands : scores[c] > scores[d] \/ (scores[c] = scores[d] /\ c <= d)

RECURSIVE Suppress(_, _, _, _, _, _)
Suppress(boxes, scores, cands, selected, maxOutputSize, iouThreshold) ==
  IF cands = {} \/ Length(selected) >= maxOutputSize THEN selected
  ELSE LET b == Best(scores, cands)
       IN  Suppress(boxes, scores,
                    {c \in cands \ {b} : ~IoUExceeds(boxes, c, b, iouThreshold)},
                    Push(selected, b), maxOutputSize, iouThreshold)

(* boxes: [numBoxes, 4]; scores of another length is a shape mismatch,   *)
(* which aborts the call.                                                  *)
nonMaxSuppression(boxes, numBoxes, scores, maxOutputSize, iouThreshold, scoreThreshold) ==
  IF Length(boxes) # numBoxes * 4 \/ Length(scores) # numBoxes
    THEN [threw |-> TRUE, indexes |-> <<>>]
    ELSE [threw |-> FALSE,
          indexes |-> Suppress(boxes, scores,
                        {i \in 0..(numBoxes - 1) : ~(scores[i] < scoreThreshold)},
                        <<>>, maxOutputSize, iouThreshold)]

----------------------------------------------------------------------------
(* buildDetectedObjects.  A bbox entry is in pixels / F32Den. *)

EmittedScoreByPosition(scores, indexes, i) == scores[i]

EmittedScore(scores, indexes, i) == scores[indexes[i]]

buildDetectedObjects(width, height, boxes, scores, indexes, classes) ==
  LET count == Length(indexes)
      label(i) == DisplayName(ClassKey(classes[indexes[i]]))
      object(i) ==
        LET minY == boxes[indexes[i] * 4 + 0] * height
            minX == boxes[indexes[i] * 4 + 1] * width
            maxY == boxes[indexes[i] * 4 + 2] * height
            maxX == boxes[indexes[i] * 4 + 3] * width
        IN  [bbox  |-> <<minX, minY, maxX - minX, maxY - minY>>,
             class |-> label(i).name,
             score |-> EmittedScore(scores, indexes, i)]
  IN  IF \E i \in 0..(count - 1) : label(i).threw
        THEN [threw |-> TRUE, objects |-> <<>>]
        ELSE [threw |-> FALSE,
              objects |-> [i \in 0..(count - 1) |-> object(i)]]

----------------------------------------------------------------------------
(* infer, from the resolution of model.executeAsync to its return.         *)
(* in: the arguments of detect and the tensors the engine resolves with;   *)
(* be: tf.getBackend() when the call resumes.                              *)

RestoreSkipped(prevBackend) == "cpu"

RestoreBackend(prevBackend) == prevBackend

Outcome(error, objects, backendAfter, nmsBackend, classes, scores, boxes, indexes) ==
  [error |-> error, objects |-> objects, backendAfter |-> backendAfter,
   nmsBackend |-> nmsBackend, classes |-> classes, scores |-> scores,
   boxes |-> boxes, indexes |-> indexes]

(* prevBackend = tf.getBackend(); tf.setBackend('cpu'); the suppression;   *)
(* tf.setBackend(prevBackend); buildDetectedObjects.  Neither setBackend   *)
(* is awaited and both backends are initialised, so each takes effect at  *)
(* once.  No try/finally: an exception of the suppression leaves before    *)
(* the second setBackend, one of buildDetectedObjects after it.            *)
Postprocess(width, height, boxes, numBoxes, scores, classes, in, be) ==
  LET prevBackend == be
      current == "cpu"
      nms == nonMaxSuppression(boxes, numBoxes, scores, in.maxNumBoxes,
                               in.nmsThresh, in.minScore)
      built == buildDetectedObjects(width, height, boxes, scores,
                                    nms.indexes, classes)
  IN  IF nms.threw
        THEN Outcome("nonMaxSuppression", <<>>, current, current, classes,
                     scores, boxes, <<>>)
      ELSE IF built.threw
        THEN Outcome("TypeError", <<>>, RestoreBackend(prevBackend), current,
                     classes, scores, boxes, nms.indexes)
      ELSE Outcome("none", built.objects, RestoreBackend(prevBackend), current,
                   classes, scores, boxes, nms.indexes)

inferYolov5(in, be) ==
  LET yolov5_result == in.r1.data
      num_objects == in.r1.shape[2]
      num_classes == in.r1.shape[3] - 5
      yolov5classes ==
        calculateMaxScoresYolov5(yolov5_result, num_objects, num_classes)
      yolov5_confidence ==
        getConfidenceYoloV5(yolov5_result, num_objects, num_classes)
      yolov5_box_corners ==
        getBoxesYoloV5(yolov5_result, num_objects, num_classes, in.inputSize)
  IN  Postprocess(640, 480, yolov5_box_corners, num_objects,
                  yolov5_confidence, yolov5classes, in, be)

inferDense(in, be) ==
  LET scores == in.r0.data
      boxes == in.r1.data
      max == calculateMaxScores(scores, in.r0.shape[2], in.r0.shape[3])
  IN  Postprocess(in.width, in.height, boxes, in.r1.shape[2], max.maxes,
                  max.classes, in, be)

infer(in, be) ==
  IF in.base = "yolov5s" THEN inferYolov5(in, be) ELSE inferDense(in, be)

----------------------------------------------------------------------------
(* The inputs of detect.  The image is its pixel size and the tensors the  *)
(* engine resolves with for it.                                            *)

Tensor(shape, data) == [shape |-> shape, data |-> ArrayOf(data)]

NoTensor == Tensor(<<0>>, <<>>)

Input(base, width, height, maxNumBoxes, nmsThresh, minScore, inputSize, r0, r1) ==
  [base |-> base, width |-> width, height |-> height,
   maxNumBoxes |-> maxNumBoxes, nmsThresh |-> nmsThresh,
   minScore |-> minScore, inputSize |-> inputSize, r0 |-> r0, r1 |-> r1]

(* rows: a non-empty sequence of rows of one width *)
PackedTensor(rows) == Tensor(<<1, Len(rows), Len(rows[1])>>, Concat(rows))

ScoresTensor(rows) == Tensor(<<1, Len(rows), Len(rows[1])>>, Concat(rows))

BoxesTensor(rows) == Tensor(<<1, Len(rows), 1, 4>>, Concat(rows))

Half == <<1, 2>>

ImageSizes == {<<640, 480>>, <<320, 240>>}

MaxNumBoxesVals == {1, 2}

MinScoreVals == {2, 4}

Counts == 1..MaxBoxes

(* Normalised corner boxes (y1, x1, y2, x2), in 1 / F32Den: the unit box, *)
(* its middle half, its upper left quarter, an empty box.                  *)
CornerBoxes == {<<0, 0, 8, 8>>, <<0, 1, 8, 7>>, <<0, 0, 4, 4>>, <<2, 2, 2, 6>>}

(* Centre-size boxes (cx, cy, w, h) in network pixels *)
CenterBoxes == {<<2, 2, 4, 4>>, <<2, 2, 3, 4>>, <<1, 1, 2, 2>>}

(* Overlapping calls: one input of each outcome *)
ConcInputs ==
  {Input("yolov5s", 320, 240, 2, Half, 2, 4, NoTensor,
         PackedTensor(<<<<2, 2, 4, 4, 4, 2, 4>>, <<1, 1, 2, 2, 6, 4, 0>>>>)),
   Input("yolov5s", 640, 480, 2, Half, 2, 4, NoTensor,
         PackedTensor(<<<<2, 2, 4, 4, 4, 0, 0>>>>)),
   Input("lite_mobilenet_v2", 640, 480, 1, Half, 2, 640,
         ScoresTensor(<<<<2, 0>>, <<0, 4>>>>),
         BoxesTensor(<<<<0, 0, 8, 8>>, <<0, 0, 4, 4>>>>)),
   Input("lite_mobilenet_v2", 640, 480, 2, Half, 2, 640,
         ScoresTensor(<<<<2, 0>>, <<0, 4>>>>),
         BoxesTensor(<<<<0, 0, 8, 8>>>>))}

----------------------------------------------------------------------------
(* The state: the global backend of tf, and each detect call *)

Calls == 1..NumCalls

Backends == {"webgl", "cpu"}

NoInput == Input("none", 0, 0, 0, Half, 0, 0, NoTensor, NoTensor)

NoLoc ==
  [nmsBackend |-> "none", classes |-> <<>>, scores |-> <<>>, boxes |-> <<>>,
   indexes |-> <<>>]

NoRet == [error |-> "none", objects |-> <<>>]

Init ==
  /\ backend \in Backends
  /\ backend0 = backend
  /\ pc = [c \in Calls |-> "idle"]
  /\ inp = [c \in Calls |-> NoInput]
  /\ loc = [c \in Calls |-> NoLoc]
  /\ ret = [c \in Calls |-> NoRet]

(* detect -> infer, up to the await of model.executeAsync *)
Detect(c, in) ==
  /\ pc[c] = "idle"
  /\ pc' = [pc EXCEPT ![c] = "awaiting"]
  /\ inp' = [inp EXCEPT ![c] = in]
  /\ UNCHANGED <<backend, backend0, loc, ret>>

(* infer from the resolution of executeAsync to the end of the call: no   *)
(* await in between, so it runs to completion.                             *)
Resume(c) ==
  /\ pc[c] = "awaiting"
  /\ LET out == infer(inp[c], backend)
     IN  /\ backend' = out.backendAfter
         /\ pc' = [pc EXCEPT ![c] = IF out.error = "none" THEN "returned"
                                                          ELSE "failed"]
         /\ loc' = [loc EXCEPT ![c] =
                      [nmsBackend |-> out.nmsBackend, classes |-> out.classes,
                       scores |-> out.scores, boxes |-> out.boxes,
                       indexes |-> out.indexes]]
         /\ ret' = [ret EXCEPT ![c] =
                      [error |-> out.error, objects |-> out.objects]]
  /\ UNCHANGED <<backend0, inp>>

(* One call.  Each action starts it on one family of inputs. *)

(* Dense, score rows of every sign *)
DetectDenseScores(c) ==
  /\ pc[c] = "idle"
  /\ \E n \in Counts, k \in 1..2 :
       \E rows \in Tuples(Tuples({-2, 0, 2, 4}, k), n) :
         Detect(c, Input("lite_mobilenet_v2", 640, 480, 2, Half, 2, 640,
                         ScoresTensor(rows),
                         BoxesTensor([a \in 1..n |-> <<0, 0, 4, 4>>])))

(* Dense, more classes than the table has names *)
DetectDenseWide(c) ==
  /\ pc[c] = "idle"
  /\ \E n \in Counts :
       \E rows \in Tuples(Tuples({0, 4}, 3), n) :
         Detect(c, Input("lite_mobilenet_v2", 640, 480, 2, Half, 2, 640,
                         ScoresTensor(rows),
                         BoxesTensor([a \in 1..n |-> <<0, 0, 4, 4>>])))

(* Dense, the whole pipeline; the two tensors may disagree on the count *)
DetectDensePipe(c) ==
  /\ pc[c] = "idle"
  /\ \E n \in Counts, m \in Counts :
       \E sz \in ImageSizes, mx \in MaxNumBoxesVals, ms \in MinScoreVals,
          rows \in Tuples({<<2, 0>>, <<0, 4>>}, n), bxs \in Tuples(CornerBoxes, m) :
         Detect(c, Input("lite_mobilenet_v2", sz[1], sz[2], mx, Half, ms, 640,
                         ScoresTensor(rows), BoxesTensor(bxs)))

(* Packed, class scores *)
DetectPackedScores(c) ==
  /\ pc[c] = "idle"
  /\ \E n \in Counts, k \in 1..2 :
       \E rows \in Tuples(Tuples({0, 2, 4}, k), n) :
         Detect(c, Input("yolov5s", 640, 480, 2, Half, 2, 4, NoTensor,
                         PackedTensor([a \in 1..n |-> <<2, 2, 4, 4, 4>> \o rows[a]])))

(* Packed, more classes than the table has names *)
DetectPackedWide(c) ==
  /\ pc[c] = "idle"
  /\ \E n \in Counts :
       \E rows \in Tuples(Tuples({0, 4}, 3), n) :
         Detect(c, Input("yolov5s", 640, 480, 2, Half, 2, 4, NoTensor,
                         PackedTensor([a \in 1..n |-> <<2, 2, 4, 4, 4>> \o rows[a]])))

(* Packed, box decoding *)
DetectPackedDecode(c) ==
  /\ pc[c] = "idle"
  /\ \E n \in Counts, scale \in {3, 4} :
       \E bxs \in Tuples({1, 2} \X {2} \X {0, 1, 2} \X {1, 4}, n) :
         Detect(c, Input("yolov5s", 640, 480, 2, Half, 2, scale, NoTensor,
                         PackedTensor([a \in 1..n |-> bxs[a] \o <<4, 4>>])))

(* Packed, the whole pipeline *)
DetectPackedPipe(c) ==
  /\ pc[c] = "idle"
  /\ \E n \in Counts :
       \E sz \in ImageSizes, mx \in MaxNumBoxesVals, ms \in MinScoreVals,
          rows \in Tuples(CenterBoxes \X {2, 4, 6}, n) :
         Detect(c, Input("yolov5s", sz[1], sz[2], mx, Half, ms, 4, NoTensor,
                         PackedTensor([a \in 1..n |->
                                         rows[a][1] \o <<rows[a][2], 2, 4>>])))

Next ==
  \/ DetectDenseScores(1)
  \/ DetectDenseWide(1)
  \/ DetectDensePipe(1)
  \/ DetectPackedScores(1)
  \/ DetectPackedWide(1)
  \/ DetectPackedDecode(1)
  \/ DetectPackedPipe(1)
  \/ Resume(1)

Spec == Init /\ [][Next]_vars

(* Overlapping calls *)
NextConc ==
  \/ \E c \in Calls : pc[c] = "idle" /\ \E in \in ConcInputs : Detect(c, in)
  \/ \E c \in Calls : Resume(c)

SpecConc == Init /\ [][NextConc]_vars

----------------------------------------------------------------------------
(* What the properties below read of a call *)

Done(c) == pc[c] \in {"returned", "failed"}

Packed(c) == inp[c].base = "yolov5s"

Dense(c) == inp[c].base = "lite_mobilenet_v2"

NumAnchors(c) == IF Packed(c) THEN inp[c].r1.shape[2] ELSE inp[c].r0.shape[2]

NumClasses(c) ==
  IF Packed(c) THEN inp[c].r1.shape[3] - 5 ELSE inp[c].r0.shape[3]

(* Class score j of anchor i, by the layout of the tensor *)
ClassScore(c, i, j) ==
  IF Packed(c) THEN inp[c].r1.data[i * (NumClasses(c) + 5) + 5 + j]
  ELSE inp[c].r0.data[i * NumClasses(c) + j]

RowMaximum(c, i) ==
  CHOOSE m \in {ClassScore(c, i, j) : j \in 0..(NumClasses(c) - 1)} :
    \A j \in 0..(NumClasses(c) - 1) : ClassScore(c, i, j) <= m

(* The lowest index at which the row of anchor i has its maximum *)
RowArgmax(c, i) ==
  CHOOSE j \in 0..(NumClasses(c) - 1) :
    /\ ClassScore(c, i, j) = RowMaximum(c, i)
    /\ \A k \in 0..(j - 1) : ClassScore(c, i, k) < RowMaximum(c, i)

Objects(c) == ret[c].objects

Kept(c) == loc[c].indexes

Positions(c) == 0..(Length(Objects(c)) - 1)

Abs(x) == IF x < 0 THEN -x ELSE x

----------------------------------------------------------------------------
(* C1: every emitted bbox is (x1*width, y1*height, (x2-x1)*width,          *)
(* (y2-y1)*height) of the kept box, with the width and height of the       *)
(* image of the call, in both layouts; one detection per kept index, in    *)
(* the order of the kept indices.                                          *)
C1_BboxFromImageSize ==
  \A c \in Calls :
    pc[c] = "returned" =>
      /\ Length(Objects(c)) = Length(Kept(c))
      /\ \A p \in Positions(c) :
           LET k == Kept(c)[p]
               y1 == loc[c].boxes[k * 4]
               x1 == loc[c].boxes[k * 4 + 1]
               y2 == loc[c].boxes[k * 4 + 2]
               x2 == loc[c].boxes[k * 4 + 3]
           IN  Objects(c)[p].bbox =
                 <<x1 * inp[c].width, y1 * inp[c].height,
                   (x2 - x1) * inp[c].width, (y2 - y1) * inp[c].height>>

(* C2: the emitted class is the display name at table position            *)
(* classIndex[k] + classOffset, classOffset 1 in the dense layout and 0 in *)
(* the packed layout.                                                      *)
C2_ClassOffsetPerLayout ==
  \A c \in Calls :
    pc[c] = "returned" =>
      \A p \in Positions(c) :
        LET key == loc[c].classes[Kept(c)[p]] + (IF Dense(c) THEN 1 ELSE 0)
        IN  /\ key \in DOMAIN CLASSES
            /\ Objects(c)[p].class = CLASSES[key]

(* C2, amended: the emitted class is the display name at table position   *)
(* classIndex[k] + 1 in the dense and in the packed layout.                *)
C2_ClassOffsetOne ==
  \A c \in Calls :
    pc[c] = "returned" =>
      \A p \in Positions(c) :
        LET key == loc[c].classes[Kept(c)[p]] + 1
        IN  /\ key \in DOMAIN CLASSES
            /\ Objects(c)[p].class = CLASSES[key]

(* A packed call returned a detection of class index 1 *)
C2_Witness ==
  \E c \in Calls :
    /\ pc[c] = "returned"
    /\ Packed(c)
    /\ \E p \in Positions(c) :
         /\ loc[c].classes[Kept(c)[p]] = 1
         /\ Objects(c)[p].class = "bicycle"

(* C3: dense calculateMaxScores: for every anchor i, classes[i] is the     *)
(* lowest index of the maximum of row i and maxes[i] is that maximum, for  *)
(* rows of any sign.                                                       *)
C3_DenseArgmax ==
  \A c \in Calls :
    (Done(c) /\ Dense(c)) =>
      \A i \in 0..(NumAnchors(c) - 1) :
        /\ loc[c].classes[i] = RowArgmax(c, i)
        /\ loc[c].scores[i] = RowMaximum(c, i)

(* C4: packed calculateMaxScoresYolov5: classes[i] is the argmax of the    *)
(* class scores of row i, the slots i*(numClasses+5)+5+j.                  *)
C4_PackedArgmax ==
  \A c \in Calls :
    (Done(c) /\ Packed(c)) =>
      \A i \in 0..(NumAnchors(c) - 1) : loc[c].classes[i] = RowArgmax(c, i)

(* The slot the source reads for class j of anchor i is the slot of the   *)
(* row layout: i*numClasses + (i+1)*5 + j = i*(numClasses+5) + 5 + j.      *)
PackedSlotIsRowSlot ==
  \A c \in Calls :
    (Done(c) /\ Packed(c)) =>
      \A i \in 0..(NumAnchors(c) - 1), j \in 0..(NumClasses(c) - 1) :
        Yolov5ScoreSlot(i, j, NumClasses(c)) = i * (NumClasses(c) + 5) + 5 + j

(* C5: a returned list has at most maxNumBoxes detections, none of score   *)
(* below minScore, in descending order of score.                           *)
C5_BoundedThresholdedSorted ==
  \A c \in Calls :
    pc[c] = "returned" =>
      /\ Length(Objects(c)) <= inp[c].maxNumBoxes
      /\ \A p \in Positions(c) : ~(Objects(c)[p].score < inp[c].minScore)
      /\ \A p, q \in Positions(c) :
           p < q => Objects(c)[p].score >= Objects(c)[q].score

(* Two detections, the later anchor first, of different scores *)
C5_Witness ==
  \E c \in Calls :
    /\ pc[c] = "returned"
    /\ Kept(c) = ArrayOf(<<1, 0>>)
    /\ Objects(c)[0].score > Objects(c)[1].score

C7_OutOfTableClassFails ==
  \A c \in Calls :
    /\ (Done(c) /\ \E p \in DOMAIN Kept(c) :
                     loc[c].classes[Kept(c)[p]] + 1 \notin DOMAIN CLASSES) =>
         /\ pc[c] = "failed"
         /\ ret[c].error = "TypeError"
         /\ Objects(c) = <<>>
    /\ pc[c] = "returned" =>
         \A p \in Positions(c) :
           \E key \in DOMAIN CLASSES : Objects(c)[p].class = CLASSES[key]

(* A call failed on a kept anchor of class index -1 *)
C7_Witness ==
  \E c \in Calls :
    /\ pc[c] = "failed"
    /\ ret[c].error = "TypeError"
    /\ \E p \in DOMAIN Kept(c) : loc[c].classes[Kept(c)[p]] = -1

(* C8: overlapping calls: the suppression of each call runs on 'cpu', each *)
(* call returns what it returns when run alone, and once all calls have    *)
(* returned the backend is the one before the first call.                  *)
C8_ConcurrentCallsIndependent ==
  /\ \A c \in Calls :
       /\ Done(c) => loc[c].nmsBackend = "cpu"
       /\ pc[c] = "returned" =>
            /\ infer(inp[c], backend0).error = "none"
            /\ Objects(c) = infer(inp[c], backend0).objects
  /\ (\A c \in Calls : pc[c] = "returned") => backend = backend0

(* All calls returned, on different images, the backend being webgl *)
C8_Witness ==
  /\ \A c \in Calls : pc[c] = "returned"
  /\ inp[1] # inp[2]
  /\ Objects(1) # <<>>
  /\ backend0 = "webgl"
  /\ backend = "webgl"

(* C9: getBoxesYoloV5: the output holds exactly ((cy-h/2)/scale,           *)
(* (cx-w/2)/scale, (cy+h/2)/scale, (cx+w/2)/scale) at i*4+0..3, and        *)
(* ((x1+x2)/2*scale, (y1+y2)/2*scale, (x2-x1)*scale, (y2-y1)*scale)        *)
(* reproduces (cx, cy, w, h); the output has length 4*numBoxes.            *)
C9_DecodeExact ==
  \A c \in Calls :
    (Done(c) /\ Packed(c)) =>
      LET s == inp[c].inputSize
          row(i) == i * (NumClasses(c) + 5)
          d == inp[c].r1.data
          b == loc[c].boxes
      IN  /\ Length(b) = 4 * NumAnchors(c)
          /\ \A i \in 0..(NumAnchors(c) - 1) :
               LET cx == d[row(i)]
                   cy == d[row(i) + 1]
                   w == d[row(i) + 2]
                   h == d[row(i) + 3]
               IN  /\ b[i * 4] * 2 * s = F32Den * (2 * cy - h)
                   /\ b[i * 4 + 1] * 2 * s = F32Den * (2 * cx - w)
                   /\ b[i * 4 + 2] * 2 * s = F32Den * (2 * cy + h)
                   /\ b[i * 4 + 3] * 2 * s = F32Den * (2 * cx + w)
                   /\ (b[i * 4 + 1] + b[i * 4 + 3]) * s = 2 * F32Den * cx
                   /\ (b[i * 4] + b[i * 4 + 2]) * s = 2 * F32Den * cy
                   /\ (b[i * 4 + 3] - b[i * 4 + 1]) * s = F32Den * w
                   /\ (b[i * 4 + 2] - b[i * 4]) * s = F32Den * h

(* C9, amended: the output holds the float32 values nearest to the four    *)
(* quotients, in the order (y1, x1, y2, x2); the re-derived centre is      *)
(* within scale times half a rounding step of (cx, cy) and the re-derived  *)
(* size within scale times a rounding step of (w, h), and they are exact   *)
(* when the quotients are float32 values; the output has length            *)
(* 4*numBoxes.                                                             *)
C9_DecodeRounded ==
  \A c \in Calls :
    (Done(c) /\ Packed(c)) =>
      LET s == inp[c].inputSize
          row(i) == i * (NumClasses(c) + 5)
          d == inp[c].r1.data
          b == loc[c].boxes
          Nearest(v, num) ==
            /\ Abs(v * 2 * s - F32Den * num) <= s
            /\ (F32Den * num) % (2 * s) = 0 => v * 2 * s = F32Den * num
      IN  /\ Length(b) = 4 * NumAnchors(c)
          /\ \A i \in 0..(NumAnchors(c) - 1) :
               LET cx == d[row(i)]
                   cy == d[row(i) + 1]
                   w == d[row(i) + 2]
                   h == d[row(i) + 3]
               IN  /\ Nearest(b[i * 4], 2 * cy - h)
                   /\ Nearest(b[i * 4 + 1], 2 * cx - w)
                   /\ Nearest(b[i * 4 + 2], 2 * cy + h)
                   /\ Nearest(b[i * 4 + 3], 2 * cx + w)
                   /\ Abs((b[i * 4 + 1] + b[i * 4 + 3]) * s - 2 * F32Den * cx) <= s
                   /\ Abs((b[i * 4] + b[i * 4 + 2]) * s - 2 * F32Den * cy) <= s
                   /\ Abs((b[i * 4 + 3] - b[i * 4 + 1]) * s - F32Den * w) <= s
                   /\ Abs((b[i * 4 + 2] - b[i * 4]) * s - F32Den * h) <= s

(* A box was decoded whose x1 is not a float32 value and was rounded *)
C9_Witness ==
  \E c \in Calls :
    /\ Done(c)
    /\ Packed(c)
    /\ LET s == inp[c].inputSize
           d == inp[c].r1.data
       IN  /\ (F32Den * (2 * d[0] - d[2])) % (2 * s) # 0
           /\ loc[c].boxes[1] * 2 * s # F32Den * (2 * d[0] - d[2])

(* C10: a call that switched the backend to 'cpu' has set the previous     *)
(* backend again when it completes, by return or by exception: between     *)
(* the steps of the calls the backend is the one before the calls.         *)
C10_BackendAlwaysRestored == backend = backend0

====
